---- MODULE Spec2Model ----
(***************************************************************************)
(* Model of modules/modelSetup/BaseStableDiffusionXLSetup.py:              *)
(*   setup_optimizations  (attention backend + gradient checkpointing)     *)
(*   predict              (noisy latent, denoising network, target)        *)
(*   calculate_loss       (MSE, optional mask / normalisation)             *)
(* The diffusers / torch calls are black boxes: their results are symbolic *)
(* terms, their failures are inputs of the calling action.                 *)
(***************************************************************************)
EXTENDS Integers, Sequences, FiniteSets, TLC

VARIABLES
    model,          \* the StableDiffusionXLModel: unet / vae / text encoder settings
    stdout,         \* number of messages print()ed by setup_optimizations
    setup_calls,    \* number of setup_optimizations calls made so far
    last_setup,     \* record of the most recent setup_optimizations call
    train_args,     \* the TrainArgs of the training run
    default_rng,    \* state of torch's process-wide random number generator
    last_call       \* record of the most recent predict / calculate_loss call

setup_vars == <<model, stdout, setup_calls, last_setup>>

train_vars == <<train_args, default_rng, last_call>>

vars == <<model, stdout, setup_calls, last_setup, train_args, default_rng, last_call>>

----------------------------------------------------------------------------
(* Bounds *)

MaxSetupCalls == 2

\* train_progress.global_step ranges over 0..MaxStep
MaxStep == 1

\* the process-wide generator is modelled with RngPeriod states
RngPeriod == 2

----------------------------------------------------------------------------
(* Domain *)

\* diffusers.models.attention_processor classes imported by the module
Processors == {"AttnProcessor", "XFormersAttnProcessor", "AttnProcessor2_0"}

\* modules.util.enum.AttentionMechanism values the code branches on
AttentionMechanisms == {"DEFAULT", "XFORMERS", "SDP"}

\* The submodules model.unet.named_modules() yields; the transformer blocks
\* among them are the instances of BasicTransformerBlock.
UnetModules == {"conv_in", "down.attn.block_0", "mid.attn.block_0", "up.resnet_0"}

BasicTransformerBlocks == {"down.attn.block_0", "mid.attn.block_0"}

None == "None"

----------------------------------------------------------------------------
(* setup_optimizations *)

\* A call context: the model being mutated, the ordered list of the calls
\* made on it, the number of messages printed, and whether a step raised.
Ctx(m) == [model |-> m, trace |-> <<>>, printed |-> 0, failed |-> None]

\* model.unet.set_attn_processor(p): installs p, or raises and installs nothing
SetAttnProcessor(c, p, fails) ==
    IF fails
    THEN [c EXCEPT !.trace = Append(@, "unet.set_attn_processor"),
                   !.failed = "unet.set_attn_processor"]
    ELSE [c EXCEPT !.trace = Append(@, "unet.set_attn_processor"),
                   !.model.unet_attn_processor = p]

\* model.vae.enable_xformers_memory_efficient_attention(): enables, or raises
EnableXformersVae(c, fails) ==
    IF fails
    THEN [c EXCEPT !.trace = Append(@, "vae.enable_xformers"),
                   !.failed = "vae.enable_xformers"]
    ELSE [c EXCEPT !.trace = Append(@, "vae.enable_xformers"),
                   !.model.vae_xformers = TRUE]

\* except Exception as e: print(...)
CatchAndPrint(c) ==
    [c EXCEPT !.printed = @ + 1, !.trace = Append(@, "print")]

\* Which branch of the if / elif chain is taken.
AttentionBranchNoAvailabilityCheck(args, env) ==
    CASE args.attention_mechanism = "DEFAULT" -> "default"
      [] args.attention_mechanism = "XFORMERS" -> "xformers"
      [] args.attention_mechanism = "SDP" -> "sdp"
      [] OTHER -> "none"

AttentionBranch(args, env) ==
    IF args.attention_mechanism = "DEFAULT" THEN "default"
    ELSE IF args.attention_mechanism = "XFORMERS" /\ env.xformers_available THEN "xformers"
    ELSE IF args.attention_mechanism = "SDP" THEN "sdp"
    ELSE "none"

\* Result of the attention part: the context and whether an exception left it.
DefaultBranch(c, env) ==
    LET a == SetAttnProcessor(c, "AttnProcessor", env.fail_unet)
    IN  [ctx |-> a, raised |-> a.failed # None, caught |-> FALSE]

XformersBranch(c, env) ==
    LET a == SetAttnProcessor(c, "XFormersAttnProcessor", env.fail_unet)
        b == EnableXformersVae(a, env.fail_vae)
    IN  IF a.failed # None
        THEN [ctx |-> CatchAndPrint(a), raised |-> FALSE, caught |-> TRUE]
        ELSE IF b.failed # None
        THEN [ctx |-> CatchAndPrint(b), raised |-> FALSE, caught |-> TRUE]
        ELSE [ctx |-> b, raised |-> FALSE, caught |-> FALSE]

SdpBranch(c, env) ==
    LET a == SetAttnProcessor(c, "AttnProcessor2_0", env.fail_unet)
        b == EnableXformersVae(a, env.fail_vae)
    IN  IF a.failed # None
        THEN [ctx |-> a, raised |-> TRUE, caught |-> FALSE]
        ELSE IF ~env.xformers_available
        THEN [ctx |-> a, raised |-> FALSE, caught |-> FALSE]
        ELSE IF b.failed # None
        THEN [ctx |-> CatchAndPrint(b), raised |-> FALSE, caught |-> TRUE]
        ELSE [ctx |-> b, raised |-> FALSE, caught |-> FALSE]

SelectAttention(c, args, env) ==
    LET br == AttentionBranch(args, env)
    IN  CASE br = "default"  -> DefaultBranch(c, env)
          [] br = "xformers" -> XformersBranch(c, env)
          [] br = "sdp"      -> SdpBranch(c, env)
          [] OTHER           -> [ctx |-> c, raised |-> FALSE, caught |-> FALSE]

\* child_module.forward = checkpoint-wrapper(child_module.forward) for every
\* BasicTransformerBlock: one more wrapper around the current forward.
EnableCheckpointingForTransformerBlocks(wraps) ==
    [n \in UnetModules |->
        IF n \in BasicTransformerBlocks THEN wraps[n] + 1 ELSE wraps[n]]

\* The four unconditional statements that end setup_optimizations.
EnableCheckpointingSkipTextEncoder2(c) ==
    [c EXCEPT !.model.unet_gradient_checkpointing = TRUE,
              !.model.forward_wraps = EnableCheckpointingForTransformerBlocks(@),
              !.model.text_encoder_1_gradient_checkpointing = TRUE,
              !.trace = @ \o <<"unet.enable_gradient_checkpointing",
                               "wrap_transformer_blocks",
                               "text_encoder_1.gradient_checkpointing_enable">>]

EnableCheckpointing(c) ==
    [c EXCEPT !.model.unet_gradient_checkpointing = TRUE,
              !.model.forward_wraps = EnableCheckpointingForTransformerBlocks(@),
              !.model.text_encoder_1_gradient_checkpointing = TRUE,
              !.model.text_encoder_2_gradient_checkpointing = TRUE,
              !.trace = @ \o <<"unet.enable_gradient_checkpointing",
                               "wrap_transformer_blocks",
                               "text_encoder_1.gradient_checkpointing_enable",
                               "text_encoder_2.gradient_checkpointing_enable">>]

\* The whole method: [ctx, outcome, caught].
SetupOptimizations(m, args, env) ==
    LET a == SelectAttention(Ctx(m), args, env)
    IN  IF a.raised
        THEN [ctx |-> a.ctx, outcome |-> "raised", caught |-> FALSE]
        ELSE [ctx |-> EnableCheckpointing(a.ctx), outcome |-> "returned",
              caught |-> a.caught]

----------------------------------------------------------------------------
(* State machine of the configurator *)

NoSetup ==
    [args |-> None, env |-> None, before |-> None, wraps_before |-> None,
     outcome |-> None, caught |-> FALSE, failed |-> None, trace |-> <<>>]

NoCall == [op |-> None]

\* The TrainArgs fields predict and calculate_loss read.
TrainArgs(w, tte, debug, mt, hc, uw, norm) ==
    [offset_noise_weight |-> w, train_text_encoder |-> tte,
     debug_mode |-> debug, debug_dir |-> "debug_dir",
     max_noising_strength |-> "max_noising_strength",
     train_device |-> "train_device", train_dtype |-> "train_dtype",
     masked_training |-> mt, has_conditioning_image_input |-> hc,
     unmasked_weight |-> uw, normalize_masked_area_loss |-> norm]

DefaultArgs == TrainArgs(0, FALSE, FALSE, FALSE, FALSE, [n |-> 0, d |-> 1], FALSE)

InitModel(p, pt) ==
    [noise_scheduler |-> [config |-> [prediction_type |-> pt,
                                      num_train_timesteps |-> "num_train_timesteps"]],
     vae |-> [config |-> [scaling_factor |-> "scaling_factor"]],
     unet_attn_processor |-> p,
     vae_xformers |-> FALSE,
     unet_gradient_checkpointing |-> FALSE,
     text_encoder_1_gradient_checkpointing |-> FALSE,
     text_encoder_2_gradient_checkpointing |-> FALSE,
     forward_wraps |-> [n \in UnetModules |-> 0]]

SetupInit ==
    /\ \E p \in Processors : model = InitModel(p, "epsilon")
    /\ stdout = 0
    /\ setup_calls = 0
    /\ last_setup = NoSetup
    /\ train_args = DefaultArgs
    /\ default_rng = 0
    /\ last_call = NoCall

SetupOptimizationsCall ==
    /\ setup_calls < MaxSetupCalls
    /\ \E mech \in AttentionMechanisms, xf \in BOOLEAN, fu \in BOOLEAN, fv \in BOOLEAN :
         LET call_args == [attention_mechanism |-> mech]
             env  == [xformers_available |-> xf, fail_unet |-> fu, fail_vae |-> fv]
             r    == SetupOptimizations(model, call_args, env)
         IN  /\ model' = r.ctx.model
             /\ stdout' = stdout + r.ctx.printed
             /\ setup_calls' = setup_calls + 1
             /\ last_setup' = [args |-> call_args, env |-> env,
                               before |-> model.unet_attn_processor,
                               wraps_before |-> model.forward_wraps,
                               outcome |-> r.outcome, caught |-> r.caught,
                               failed |-> r.ctx.failed, trace |-> r.ctx.trace]
    /\ UNCHANGED train_vars

SetupNext == SetupOptimizationsCall

SetupSpec == SetupInit /\ [][SetupNext]_vars

----------------------------------------------------------------------------
(* Training-step domain *)

\* noise_scheduler.config.prediction_type values a diffusers scheduler accepts
PredictionTypes == {"epsilon", "v_prediction", "sample"}

\* batch['latent_image'] tensors: an identity (the contents) and a shape
LatentImages ==
    {[id |-> "latent_a", shape |-> <<1, 4, 2, 2>>],
     [id |-> "latent_b", shape |-> <<1, 4, 2, 2>>],
     [id |-> "latent_c", shape |-> <<2, 4, 2, 2>>]}

OffsetNoiseWeights == {0, 1}

Steps == 0..MaxStep

\* A python dict is a function from its keys.
EmptyDict == [k \in {} |-> None]

\* A training batch built around one latent image.
Batch(latent) ==
    [latent_image |-> latent,
     tokens_1 |-> <<"tokens_1", latent.id>>,
     tokens_2 |-> <<"tokens_2", latent.id>>,
     text_encoder_1_hidden_state |-> <<"text_encoder_1_hidden_state", latent.id>>,
     text_encoder_2_hidden_state |-> <<"text_encoder_2_hidden_state", latent.id>>,
     text_encoder_2_pooled_state |-> <<"text_encoder_2_pooled_state", latent.id>>]

----------------------------------------------------------------------------
(* predict *)

\* generator = torch.Generator(device); generator.manual_seed(global_step)
GeneratorSeededFromModelProgress(args, train_progress, m) ==
    [device |-> args.train_device, seed |-> m.train_progress.global_step,
     drawn |-> <<>>]

SeededGenerator(args, train_progress, m) ==
    [device |-> args.train_device, seed |-> train_progress.global_step,
     drawn |-> <<>>]

\* torch.randn(shape, generator=g, ...): the values are fixed by the seed and
\* by what was drawn from g before; drawing advances g.
Randn(shape, g, device, dtype) ==
    [value |-> [op |-> "randn", shape |-> shape, seed |-> g.seed,
                after |-> g.drawn, device |-> device, dtype |-> dtype],
     generator |-> [g EXCEPT !.drawn = Append(@, shape)]]

\* torch.randint(low, high, size) without a generator: drawn from, and
\* advancing, the process-wide generator.
Randint(rng, low, high, size) ==
    [value |-> [op |-> "randint", low |-> low, high |-> high, size |-> size,
                state |-> rng],
     rng |-> (rng + 1) % RngPeriod]

\* The latent noise, with offset noise when offset_noise_weight > 0.
LatentNoise(shape, generator, args) ==
    IF args.offset_noise_weight > 0
    THEN LET normal_noise == Randn(shape, generator, args.train_device, args.train_dtype)
             offset_noise == Randn(<<shape[1], shape[2], 1, 1>>, normal_noise.generator,
                                   args.train_device, args.train_dtype)
         IN  [op |-> "add", a |-> normal_noise.value,
              b |-> [op |-> "mul", a |-> args.offset_noise_weight,
                     b |-> offset_noise.value]]
    ELSE Randn(shape, generator, args.train_device, args.train_dtype).value

\* Text conditioning: from the text encoders when they are trained, from the
\* cached hidden states of the batch otherwise.
TextEncoderOutputs(batch, args) ==
    IF args.train_text_encoder
    THEN [text_encoder_1_output |->
              [op |-> "hidden_states[-2]", of |-> [op |-> "text_encoder_1", tokens |-> batch.tokens_1]],
          text_encoder_2_output |->
              [op |-> "hidden_states[-2]", of |-> [op |-> "text_encoder_2", tokens |-> batch.tokens_2]],
          pooled_text_encoder_2_output |->
              [op |-> "text_embeds", of |-> [op |-> "text_encoder_2", tokens |-> batch.tokens_2]]]
    ELSE [text_encoder_1_output |->
              [op |-> "[-2]", of |-> batch.text_encoder_1_hidden_state],
          text_encoder_2_output |->
              [op |-> "[-2]", of |-> batch.text_encoder_2_hidden_state],
          pooled_text_encoder_2_output |-> batch.text_encoder_2_pooled_state]

\* The dictionary predict returns.
ModelOutputDataTargetFromLatent(prediction_type, predicted_latent_noise, latent_noise, scaled_latent_image, timestep) ==
    IF prediction_type = "epsilon"
    THEN [predicted |-> predicted_latent_noise, target |-> scaled_latent_image]
    ELSE IF prediction_type = "v_prediction"
    THEN [predicted |-> predicted_latent_noise,
          target |-> [op |-> "get_velocity", sample |-> scaled_latent_image.a,
                      noise |-> latent_noise, timesteps |-> timestep]]
    ELSE EmptyDict

ModelOutputData(prediction_type, predicted_latent_noise, latent_noise, scaled_latent_image, timestep) ==
    IF prediction_type = "epsilon"
    THEN [predicted |-> predicted_latent_noise, target |-> latent_noise]
    ELSE IF prediction_type = "v_prediction"
    THEN [predicted |-> predicted_latent_noise,
          target |-> [op |-> "get_velocity", sample |-> scaled_latent_image,
                      noise |-> latent_noise, timesteps |-> timestep]]
    ELSE EmptyDict

\* self.save_image(self.project_latent_to_image(latent).clamp(-1, 1), directory, name, step)
SaveImage(latent, directory, name, step) ==
    [image |-> [op |-> "project_latent_to_image", latent |-> latent],
     directory |-> directory, name |-> name, step |-> step]

\* The images written by the debug block, in the order written.
DebugImages(m, args, train_progress, latent_noise, predicted_latent_noise, scaled_noisy_latent_image, scaled_latent_image, timestep) ==
    IF args.debug_mode
    THEN LET dir == <<args.debug_dir, "/training_batches">>
             scaled_predicted_latent_image ==
                 [op |-> "predicted_image", noisy |-> scaled_noisy_latent_image,
                  predicted |-> predicted_latent_noise,
                  alphas_cumprod_at |-> timestep]
         IN  << SaveImage(latent_noise, dir, "1-noise", train_progress.global_step),
                SaveImage(predicted_latent_noise, dir, "2-predicted_noise",
                          train_progress.global_step),
                SaveImage(scaled_noisy_latent_image, dir, "3-noisy_image",
                          train_progress.global_step),
                SaveImage(scaled_predicted_latent_image, dir, "4-predicted_image",
                          m.train_progress.global_step),
                SaveImage(scaled_latent_image, dir, "5-image",
                          m.train_progress.global_step) >>
    ELSE <<>>

\* The whole method: the returned dictionary, the images written, the state
\* the process-wide generator is left in, and the latent noise drawn.
Predict(m, batch, args, train_progress, rng) ==
    LET vae_scaling_factor == m.vae.config.scaling_factor
        latent_image == batch.latent_image
        scaled_latent_image ==
            [op |-> "mul", a |-> latent_image, b |-> vae_scaling_factor]
        shape == latent_image.shape
        generator == SeededGenerator(args, train_progress, m)
        latent_noise == LatentNoise(shape, generator, args)
        drawn == Randint(rng, 0,
                         [op |-> "int_mul", a |-> m.noise_scheduler.config.num_train_timesteps,
                          b |-> args.max_noising_strength],
                         <<shape[1]>>)
        timestep == drawn.value
        scaled_noisy_latent_image ==
            [op |-> "add_noise", original_samples |-> scaled_latent_image,
             noise |-> latent_noise, timesteps |-> timestep]
        text == TextEncoderOutputs(batch, args)
        text_encoder_output ==
            [op |-> "concat", a |-> text.text_encoder_1_output,
             b |-> text.text_encoder_2_output]
        add_time_ids ==
            [op |-> "time_ids", original |-> <<1024, 1024>>, crops |-> <<0, 0>>,
             target |-> <<1024, 1024>>, repeat |-> shape[1]]
        predicted_latent_noise ==
            [op |-> "unet", sample |-> scaled_noisy_latent_image,
             timestep |-> timestep,
             encoder_hidden_states |-> text_encoder_output,
             added_cond_kwargs |-> [text_embeds |-> text.pooled_text_encoder_2_output,
                                    time_ids |-> add_time_ids]]
    IN  [data |-> ModelOutputData(m.noise_scheduler.config.prediction_type,
                                  predicted_latent_noise, latent_noise,
                                  scaled_latent_image, timestep),
         images |-> DebugImages(m, args, train_progress, latent_noise,
                                predicted_latent_noise, scaled_noisy_latent_image,
                                scaled_latent_image, timestep),
         rng |-> drawn.rng,
         latent_noise |-> latent_noise,
         timestep |-> timestep,
         scaled_latent_image |-> scaled_latent_image]

\* What the latent noise is claimed to be a function of.
NoiseKey(batch, args, train_progress) ==
    [global_step |-> train_progress.global_step,
     shape |-> batch.latent_image.shape,
     device |-> args.train_device,
     dtype |-> args.train_dtype,
     offset_noise_weight |-> args.offset_noise_weight]

----------------------------------------------------------------------------
(* Tensor arithmetic for calculate_loss: exact rationals [n, d]; d = 0 is a *)
(* non-finite float (n = 1: inf, n = 0: nan).                                *)

RECURSIVE GCD(_, _)
GCD(a, b) == IF b = 0 THEN a ELSE GCD(b, a % b)

Abs(x) == IF x < 0 THEN -x ELSE x

Q(n, d) ==
    IF d = 0 THEN [n |-> IF n = 0 THEN 0 ELSE 1, d |-> 0]
    ELSE LET g == GCD(Abs(n), Abs(d))
             sgn == IF d < 0 THEN -1 ELSE 1
         IN  [n |-> sgn * (n \div g), d |-> sgn * (d \div g)]

Finite(a) == a.d # 0

NonFinite(a, b) ==
    IF (~Finite(a) /\ a.n = 0) \/ (~Finite(b) /\ b.n = 0) THEN Q(0, 0) ELSE Q(1, 0)

QAdd(a, b) ==
    IF Finite(a) /\ Finite(b) THEN Q(a.n * b.d + b.n * a.d, a.d * b.d)
    ELSE NonFinite(a, b)

QSub(a, b) == Q(a.n * b.d - b.n * a.d, a.d * b.d)

QMul(a, b) == Q(a.n * b.n, a.d * b.d)

\* float division: x / 0 is inf for x > 0 and nan for x = 0
QDiv(a, b) ==
    IF ~Finite(a) THEN a
    ELSE IF b.n = 0 THEN Q(a.n, 0)
    ELSE Q(a.n * b.d, a.d * b.n)

QLess(a, b) == a.n * b.d < b.n * a.d

RECURSIVE QSum(_)
QSum(xs) == IF xs = <<>> THEN Q(0, 1) ELSE QAdd(Head(xs), QSum(Tail(xs)))

\* tensor.mean() over a flat sequence of elements
QMean(xs) == QDiv(QSum(xs), Q(Len(xs), 1))

\* A tensor of shape [B, C, H, W] is a sequence of B samples, each the flat
\* sequence of its C*H*W elements.
TensorMul(x, y) ==
    [i \in DOMAIN x |-> [j \in DOMAIN x[i] |-> QMul(x[i][j], y[i][j])]]

\* tensor.mean([1, 2, 3]) / tensor.mean(dim=(1, 2, 3)): one value per sample
MeanDims123(x) == [i \in DOMAIN x |-> QMean(x[i])]

\* F.mse_loss(predicted, target, reduction='none')
SquaredError(p, t) == QMul(QSub(p, t), QSub(p, t))

MseLoss(predicted, target) ==
    [i \in DOMAIN predicted |-> [j \in DOMAIN predicted[i] |->
        SquaredError(predicted[i][j], target[i][j])]]

\* torch.clamp(mask, lo, 1)
Clamp(x, lo, hi) ==
    [i \in DOMAIN x |-> [j \in DOMAIN x[i] |->
        LET v == x[i][j]
            w == IF QLess(v, lo) THEN lo ELSE v
        IN  IF QLess(hi, w) THEN hi ELSE w]]

\* losses / clamped_mask.mean(dim=(1, 2, 3)) on per-sample losses
DivideBySampleMean(losses, clamped_mask) ==
    LET means == MeanDims123(clamped_mask)
    IN  [i \in DOMAIN losses |-> QDiv(losses[i], means[i])]

\* modules.util.loss_util.masked_loss(F.mse_loss, ...): elementwise losses of
\* the mask-weighted tensors, divided by the mean mask when normalising.
MaskedLoss(predicted, target, mask, unmasked_weight, normalize_masked_area_loss) ==
    LET clamped_mask == Clamp(mask, unmasked_weight, Q(1, 1))
        losses == MseLoss(TensorMul(predicted, clamped_mask),
                          TensorMul(target, clamped_mask))
        means == MeanDims123(clamped_mask)
    IN  IF normalize_masked_area_loss
        THEN [i \in DOMAIN losses |-> [j \in DOMAIN losses[i] |->
                 QDiv(losses[i][j], means[i])]]
        ELSE losses

\* args.masked_training and not args.model_type.has_conditioning_image_input()
MaskedTrainingApplies(args) ==
    args.masked_training /\ ~args.has_conditioning_image_input

\* The else branch of calculate_loss: plain MSE, divided by the mean clamped
\* mask when normalize_masked_area_loss is set.
UnmaskedLossesAlwaysNormalized(batch, predicted, target, args) ==
    LET losses == MeanDims123(MseLoss(predicted, target))
    IN  IF "latent_mask" \notin DOMAIN batch
        THEN [outcome |-> "KeyError", key |-> "latent_mask", losses |-> <<>>,
              reads |-> {"latent_mask"}]
        ELSE [outcome |-> "returned", key |-> None,
              losses |-> DivideBySampleMean(losses,
                             Clamp(batch.latent_mask, args.unmasked_weight, Q(1, 1))),
              reads |-> {"latent_mask"}]

UnmaskedLosses(batch, predicted, target, args) ==
    LET losses == MeanDims123(MseLoss(predicted, target))
    IN  IF ~args.normalize_masked_area_loss
        THEN [outcome |-> "returned", key |-> None, losses |-> losses, reads |-> {}]
        ELSE IF "latent_mask" \notin DOMAIN batch
        THEN [outcome |-> "KeyError", key |-> "latent_mask", losses |-> <<>>,
              reads |-> {"latent_mask"}]
        ELSE [outcome |-> "returned", key |-> None,
              losses |-> DivideBySampleMean(losses,
                             Clamp(batch.latent_mask, args.unmasked_weight, Q(1, 1))),
              reads |-> {"latent_mask"}]

\* The if branch of calculate_loss.
MaskedLosses(batch, predicted, target, args) ==
    IF "latent_mask" \notin DOMAIN batch
    THEN [outcome |-> "KeyError", key |-> "latent_mask", losses |-> <<>>,
          reads |-> {"latent_mask"}]
    ELSE [outcome |-> "returned", key |-> None,
          losses |-> MeanDims123(MaskedLoss(predicted, target, batch.latent_mask,
                                            args.unmasked_weight,
                                            args.normalize_masked_area_loss)),
          reads |-> {"latent_mask"}]

\* The whole method: the outcome, the loss returned and the batch keys read.
CalculateLoss(m, batch, data, args) ==
    IF "predicted" \notin DOMAIN data
    THEN [outcome |-> "KeyError", key |-> "predicted", loss |-> None, reads |-> {}]
    ELSE IF "target" \notin DOMAIN data
    THEN [outcome |-> "KeyError", key |-> "target", loss |-> None, reads |-> {}]
    ELSE LET r == IF MaskedTrainingApplies(args)
                  THEN MaskedLosses(batch, data.predicted, data.target, args)
                  ELSE UnmaskedLosses(batch, data.predicted, data.target, args)
         IN  IF r.outcome = "returned"
             THEN [outcome |-> "returned", key |-> None, loss |-> QMean(r.losses),
                   reads |-> r.reads]
             ELSE [outcome |-> r.outcome, key |-> r.key, loss |-> None,
                   reads |-> r.reads]

----------------------------------------------------------------------------
(* State machine of the training step *)

\* Values of the elements of the tensors handed to calculate_loss
ElementValues == {Q(0, 1), Q(1, 1)}

\* Tensors of one sample with two elements
LossTensors == {<<<<a, b>>>> : a \in ElementValues, b \in ElementValues}

MaskTensors == LossTensors

UnmaskedWeights == {Q(0, 1), Q(1, 2)}

PredictInit ==
    /\ \E pt \in PredictionTypes : model = InitModel("AttnProcessor", pt)
    /\ stdout = 0
    /\ setup_calls = 0
    /\ last_setup = NoSetup
    /\ \E w \in OffsetNoiseWeights, tte \in BOOLEAN, debug \in BOOLEAN :
          train_args = TrainArgs(w, tte, debug, FALSE, FALSE, Q(0, 1), FALSE)
    /\ default_rng = 0
    /\ last_call = NoCall

PredictCall ==
    \E latent \in LatentImages, step \in Steps, model_step \in Steps :
        LET m == [noise_scheduler |-> model.noise_scheduler, vae |-> model.vae,
                  train_progress |-> [global_step |-> model_step]]
            batch == Batch(latent)
            train_progress == [global_step |-> step]
            r == Predict(m, batch, train_args, train_progress, default_rng)
            key == NoiseKey(batch, train_args, train_progress)
        IN  /\ default_rng' = r.rng
            /\ last_call' =
                 [op |-> "predict", latent_image |-> latent,
                  train_progress |-> train_progress,
                  model_train_progress |-> m.train_progress,
                  data |-> r.data, images |-> r.images,
                  latent_noise |-> r.latent_noise, noise_key |-> key,
                  repeats_key |-> /\ last_call.op = "predict"
                                  /\ last_call.noise_key = key
                                  /\ last_call.latent_image # latent]
            /\ UNCHANGED <<setup_vars, train_args>>

\* Any other draw from the process-wide generator between two calls.
DefaultRngDraw ==
    /\ default_rng' = (default_rng + 1) % RngPeriod
    /\ UNCHANGED <<last_call, setup_vars, train_args>>

PredictNext == PredictCall \/ DefaultRngDraw

PredictSpec == PredictInit /\ [][PredictNext]_vars

\* calculate_loss is a function of its arguments: the initial state holds the
\* arguments of a pending call. The data dictionary has the keys predict
\* returns for the scheduler's prediction type, with numeric tensors as values.
LossInit ==
    /\ \E pt \in PredictionTypes : model = InitModel("AttnProcessor", pt)
    /\ stdout = 0
    /\ setup_calls = 0
    /\ last_setup = NoSetup
    /\ \E uw \in UnmaskedWeights, mt \in BOOLEAN, hc \in BOOLEAN, norm \in BOOLEAN :
          train_args = TrainArgs(0, FALSE, FALSE, mt, hc, uw, norm)
    /\ default_rng = 0
    /\ \E pv \in LossTensors, tv \in LossTensors,
          batch \in {EmptyDict} \cup {[latent_mask |-> mk] : mk \in MaskTensors} :
          LET returned == ModelOutputData(model.noise_scheduler.config.prediction_type,
                                          pv, tv, None, None)
          IN  last_call = [op |-> "pending", batch |-> batch,
                           data |-> [k \in DOMAIN returned |->
                                        IF k = "predicted" THEN pv ELSE tv],
                           predicted |-> pv, target |-> tv]

CalculateLossCall ==
    /\ last_call.op = "pending"
    /\ LET r == CalculateLoss(model, last_call.batch, last_call.data, train_args)
       IN  last_call' =
               [op |-> "calculate_loss", batch |-> last_call.batch,
                data |-> last_call.data,
                predicted |-> last_call.predicted, target |-> last_call.target,
                outcome |-> r.outcome, key |-> r.key, loss |-> r.loss,
                reads |-> r.reads]
    /\ UNCHANGED <<default_rng, setup_vars, train_args>>

LossNext == CalculateLossCall

LossSpec == LossInit /\ [][LossNext]_vars

----------------------------------------------------------------------------
(* Claims about setup_optimizations *)

SetupCalled == last_setup.outcome # None

AttentionEvents == {"unet.set_attn_processor", "vae.enable_xformers"}

CheckpointEvents ==
    <<"unet.enable_gradient_checkpointing", "wrap_transformer_blocks",
      "text_encoder_1.gradient_checkpointing_enable",
      "text_encoder_2.gradient_checkpointing_enable">>

\* C1: whatever the attention mechanism and xformers availability, a failure
\* raised by unet.set_attn_processor or vae.enable_xformers_... is caught:
\* the call prints a message and returns, it never propagates the exception.
C1_EnablementFailureIsCaught ==
    (SetupCalled /\ last_setup.failed # None) =>
        /\ last_setup.outcome = "returned"
        /\ last_setup.caught
        /\ "print" \in {last_setup.trace[i] : i \in DOMAIN last_setup.trace}

\* C2: whenever an enablement failure is caught, the unet ends the call with
\* the default AttnProcessor, whichever step failed and whatever it had before.
C2_CaughtFailureFallsBackToDefault ==
    (SetupCalled /\ last_setup.caught) =>
        model.unet_attn_processor = "AttnProcessor"

\* The processor the claim assigns to each attention mechanism.
ClaimedProcessor(mech) ==
    CASE mech = "DEFAULT"  -> "AttnProcessor"
      [] mech = "XFORMERS" -> "XFormersAttnProcessor"
      [] mech = "SDP"      -> "AttnProcessor2_0"

NoStepFailed ==
    SetupCalled /\ last_setup.outcome = "returned" /\ last_setup.failed = None

\* C3 (as stated): after a call in which no enablement step fails, the unet's
\* processor is determined by args.attention_mechanism alone, independent of
\* the processor before the call and of xformers availability.
C3_ProcessorByMechanismAlone ==
    NoStepFailed =>
        model.unet_attn_processor = ClaimedProcessor(last_setup.args.attention_mechanism)

\* C3 (amended): after a call in which no enablement step fails, DEFAULT gives
\* AttnProcessor, SDP gives AttnProcessor2_0, XFORMERS gives
\* XFormersAttnProcessor when xformers is available, and XFORMERS without
\* xformers leaves the processor installed before the call in place.
C3_ProcessorByMechanismAndAvailability ==
    NoStepFailed =>
        model.unet_attn_processor =
            IF /\ last_setup.args.attention_mechanism = "XFORMERS"
               /\ ~last_setup.env.xformers_available
            THEN last_setup.before
            ELSE ClaimedProcessor(last_setup.args.attention_mechanism)

\* C3 witness: XFORMERS requested without xformers on a unet that had another
\* processor, and SDP was not what the call found installed.
C3_Witness ==
    /\ NoStepFailed
    /\ last_setup.args.attention_mechanism = "XFORMERS"
    /\ ~last_setup.env.xformers_available
    /\ last_setup.before = "AttnProcessor2_0"
    /\ model.unet_attn_processor = "AttnProcessor2_0"

\* C4: every call that returns, for every mechanism and also after a caught
\* failure, has enabled gradient checkpointing on the unet and on both text
\* encoders and has put one checkpointing wrapper around the forward of every
\* BasicTransformerBlock (and of no other module); every attention-backend
\* call of the trace precedes every checkpointing call.
C4_ReturnedCallEnabledCheckpointing ==
    (SetupCalled /\ last_setup.outcome = "returned") =>
        /\ model.unet_gradient_checkpointing
        /\ model.text_encoder_1_gradient_checkpointing
        /\ model.text_encoder_2_gradient_checkpointing
        /\ \A n \in BasicTransformerBlocks :
              /\ model.forward_wraps[n] >= 1
              /\ model.forward_wraps[n] = last_setup.wraps_before[n] + 1
        /\ \A n \in UnetModules \ BasicTransformerBlocks :
              model.forward_wraps[n] = 0
        /\ LET t == last_setup.trace
               k == Len(t) - Len(CheckpointEvents)
           IN  /\ k >= 0
               /\ SubSeq(t, k + 1, Len(t)) = CheckpointEvents
               /\ \A i \in 1..k : t[i] \in AttentionEvents \cup {"print"}

\* C4 witness: a call that caught a failure of the VAE step and returned.
C4_Witness ==
    /\ SetupCalled
    /\ last_setup.outcome = "returned"
    /\ last_setup.caught
    /\ last_setup.failed = "vae.enable_xformers"
    /\ model.text_encoder_2_gradient_checkpointing

\* C9: after k calls of setup_optimizations on the same model, the forward of
\* every BasicTransformerBlock is nested in exactly k checkpoint wrappers.
C9_WrapDepthEqualsCalls ==
    \A n \in BasicTransformerBlocks : model.forward_wraps[n] = setup_calls

----------------------------------------------------------------------------
(* Claims about predict *)

Predicted == last_call.op = "predict"

PredictionType == model.noise_scheduler.config.prediction_type

\* C5: 'predicted' is the denoising network's output for the noisy latent
\* (the scaled clean latent with the sampled noise added at the sampled
\* timestep); 'target' is that same noise for 'epsilon', and the scheduler's
\* velocity of the scaled clean latent, that noise and that timestep for
\* 'v_prediction'.
C5_PredictedAndTargetByPredictionType ==
    (Predicted /\ PredictionType \in {"epsilon", "v_prediction"}) =>
        LET d == last_call.data
            noisy == d.predicted.sample
            scaled == [op |-> "mul", a |-> last_call.latent_image,
                       b |-> model.vae.config.scaling_factor]
        IN  /\ DOMAIN d = {"predicted", "target"}
            /\ d.predicted.op = "unet"
            /\ noisy.op = "add_noise"
            /\ noisy.original_samples = scaled
            /\ noisy.noise = last_call.latent_noise
            /\ d.predicted.timestep = noisy.timesteps
            /\ (PredictionType = "epsilon" => d.target = noisy.noise)
            /\ (PredictionType = "v_prediction" =>
                    d.target = [op |-> "get_velocity", sample |-> scaled,
                                noise |-> noisy.noise, timesteps |-> noisy.timesteps])

\* C5 witness: a v_prediction call with offset noise returned a velocity target.
C5_Witness ==
    /\ Predicted
    /\ PredictionType = "v_prediction"
    /\ train_args.offset_noise_weight > 0
    /\ last_call.data.target.op = "get_velocity"
    /\ last_call.latent_noise.op = "add"

DebugImageNames ==
    <<"1-noise", "2-predicted_noise", "3-noisy_image", "4-predicted_image", "5-image">>

\* C6: in debug mode one predict call writes exactly five images to
\* <debug_dir>/training_batches, in the order 1-noise, 2-predicted_noise,
\* 3-noisy_image, 4-predicted_image, 5-image, all keyed by the global_step of
\* the train_progress passed to the call; with debug mode off it writes none.
C6_DebugImagesKeyedByPassedStep ==
    Predicted =>
        IF train_args.debug_mode
        THEN /\ [i \in DOMAIN last_call.images |-> last_call.images[i].name]
                    = DebugImageNames
             /\ \A i \in DOMAIN last_call.images :
                    /\ last_call.images[i].directory
                           = <<train_args.debug_dir, "/training_batches">>
                    /\ last_call.images[i].step = last_call.train_progress.global_step
        ELSE last_call.images = <<>>

\* C10: two predict calls with the same global_step, latent shape, device,
\* dtype and offset_noise_weight draw the same latent noise, whatever the
\* batch contents, the calls before and the draws from the process-wide
\* generator in between.
C10_LatentNoiseDeterminedByStep ==
    [][(/\ last_call.op = "predict"
        /\ last_call'.op = "predict"
        /\ last_call'.noise_key = last_call.noise_key)
            => last_call'.latent_noise = last_call.latent_noise]_vars

\* C10 witness: a call repeating the key of the call before it on a batch with
\* other contents, with offset noise drawn.
C10_Witness ==
    /\ Predicted
    /\ last_call.repeats_key
    /\ train_args.offset_noise_weight > 0
    /\ last_call.latent_noise.op = "add"

----------------------------------------------------------------------------
(* Claims about calculate_loss *)

LossCalculated == last_call.op = "calculate_loss"

\* Mean squared error over all elements, for samples of equal size.
PlainMse(predicted, target) ==
    LET sq(i, j) == (predicted[i][j].n - target[i][j].n) * (predicted[i][j].n - target[i][j].n)
        cells == {<<i, j>> : i \in DOMAIN predicted, j \in DOMAIN predicted[1]}
        RECURSIVE Total(_)
        Total(cs) == IF cs = {} THEN 0
                     ELSE LET c == CHOOSE x \in cs : TRUE
                          IN  sq(c[1], c[2]) + Total(cs \ {c})
    IN  Q(Total(cells), Cardinality(cells))

HasPredictedAndTarget == {"predicted", "target"} \subseteq DOMAIN last_call.data

\* C7 (as stated): when masked training is not applied, the result is the
\* plain MSE of predicted and target and batch['latent_mask'] is not read,
\* for every unmasked_weight and normalize_masked_area_loss.
C7_UnmaskedLossIsPlainMse ==
    (LossCalculated /\ HasPredictedAndTarget /\ ~MaskedTrainingApplies(train_args)) =>
        /\ last_call.outcome = "returned"
        /\ last_call.loss = PlainMse(last_call.predicted, last_call.target)
        /\ "latent_mask" \notin last_call.reads

\* C7 (amended): when masked training is not applied and
\* normalize_masked_area_loss is off, the result is the plain MSE of predicted
\* and target and batch['latent_mask'] is not read, for every unmasked_weight.
C7_UnmaskedUnnormalizedLossIsPlainMse ==
    (/\ LossCalculated
     /\ HasPredictedAndTarget
     /\ ~MaskedTrainingApplies(train_args)
     /\ ~train_args.normalize_masked_area_loss) =>
        /\ last_call.outcome = "returned"
        /\ last_call.loss = PlainMse(last_call.predicted, last_call.target)
        /\ "latent_mask" \notin last_call.reads

\* C7 witness: masked training requested on a model type with a conditioning
\* image input, no normalisation, a half-set mask in the batch, non-zero loss.
C7_Witness ==
    /\ LossCalculated
    /\ HasPredictedAndTarget
    /\ train_args.masked_training
    /\ train_args.has_conditioning_image_input
    /\ ~train_args.normalize_masked_area_loss
    /\ train_args.unmasked_weight = Q(0, 1)
    /\ "latent_mask" \in DOMAIN last_call.batch
    /\ last_call.batch.latent_mask = <<<<Q(0, 1), Q(1, 1)>>>>
    /\ last_call.outcome = "returned"
    /\ last_call.loss = Q(1, 2)

\* C8: for every scheduler prediction type the dictionary predict returns
\* holds 'predicted' and 'target', so calculate_loss on it never fails for a
\* missing one of these entries.
C8_PredictResultFeedsCalculateLoss ==
    LossCalculated =>
        /\ HasPredictedAndTarget
        /\ ~(last_call.outcome = "KeyError" /\ last_call.key \in {"predicted", "target"})

====
